---- MODULE Spec2Model ----
(***************************************************************************)
(* QuickCart chat: budget extraction, result filtering and ranking, answer *)
(* composition and the per-turn chat handler of src/src/app.py.            *)
(*                                                                         *)
(* A query is a sequence of lexical units: the trigger words are single    *)
(* units ("under", "below", "less than"), every other unit is one          *)
(* character.  A price ceiling is an optional number: {} is None, {n} is   *)
(* the float n (all floats of the model are integer-valued).               *)
(***************************************************************************)
EXTENDS Integers, Sequences, FiniteSets, TLC

VARIABLES
    messages,      \* st.session_state.messages
    sort_mode,     \* sidebar selectbox
    use_ai,        \* sidebar checkbox
    top_k,         \* sidebar slider
    groq_key,      \* GROQ_API_KEY of the environment
    turn,          \* number of query turns submitted so far
    user_query,    \* st.chat_input value of the current script run
    max_price,     \* local of the chat handler
    retrieved,     \* what index.query returned in this run
    results,       \* local `results` after apply_filters and apply_sort
    context,       \* the product lines of the prompt sent to the backend
    budget_text,   \* the budget line of that prompt
    invoked,       \* whether llm.invoke was called in this run
    reply,         \* local `reply`
    cards,         \* what render_product_cards displayed
    outcome,       \* how the script run ended
    fn,            \* function applied by the last direct call
    arg_query,     \* arguments and return values of direct calls
    arg_results,
    arg_max_price,
    ret_price,
    ret_results,
    ret_again

session_vars == <<messages, sort_mode, use_ai, top_k, groq_key, turn, user_query,
                  max_price, retrieved, results, context, budget_text, invoked, reply,
                  cards, outcome>>
call_vars == <<fn, arg_query, arg_results, arg_max_price, ret_price, ret_results,
               ret_again>>
vars == <<session_vars, call_vars>>

(***************************************************************************)
(* Bounds of the model.                                                    *)
(***************************************************************************)
MaxQueryLen == 6
MaxResults == 3
MaxTurns == 2

None == {}
Some(x) == {x}
ValueOf(opt) == CHOOSE x \in opt : TRUE

Min(a, b) == IF a <= b THEN a ELSE b
Prefix(s, n) == SubSeq(s, 1, Min(n, Len(s)))

RECURSIVE Reverse(_)
Reverse(s) == IF s = <<>> THEN <<>> ELSE Append(Reverse(Tail(s)), Head(s))

(***************************************************************************)
(* Text.                                                                   *)
(***************************************************************************)
Whitespace == {" "}
Digits == {"0", "1", "2", "3", "4", "5", "6", "7", "8", "9"}
WordTriggers == {"below", "under", "less than"}

DigitVal(c) ==
    CASE c = "0" -> 0 [] c = "1" -> 1 [] c = "2" -> 2 [] c = "3" -> 3
      [] c = "4" -> 4 [] c = "5" -> 5 [] c = "6" -> 6 [] c = "7" -> 7
      [] c = "8" -> 8 [] c = "9" -> 9

\* str.lower()
LowerChar(c) ==
    CASE c = "K" -> "k"
      [] c = "A" -> "a"
      [] c = "UNDER" -> "under"
      [] OTHER -> c
Lower(s) == [i \in 1..Len(s) |-> LowerChar(s[i])]

\* str.strip()
RECURSIVE LStrip(_)
LStrip(s) ==
    IF s # <<>> /\ Head(s) \in Whitespace THEN LStrip(Tail(s)) ELSE s
Strip(s) == Reverse(LStrip(Reverse(LStrip(s))))

\* float() of a digit string
RECURSIVE ParseDigits(_)
ParseDigits(ds) ==
    IF ds = <<>> THEN 0
    ELSE 10 * ParseDigits(SubSeq(ds, 1, Len(ds) - 1)) + DigitVal(ds[Len(ds)])

\* str(int(x)) of a non-negative number
RECURSIVE FormatInt(_)
FormatInt(n) ==
    CASE n = 0 -> <<"0">> [] n = 1 -> <<"1">> [] n = 2 -> <<"2">> [] n = 3 -> <<"3">>
      [] n = 4 -> <<"4">> [] n = 5 -> <<"5">> [] n = 6 -> <<"6">> [] n = 7 -> <<"7">>
      [] n = 8 -> <<"8">> [] n = 9 -> <<"9">>
      [] OTHER -> FormatInt(n \div 10) \o FormatInt(n % 10)

(***************************************************************************)
(* The regular expressions of extract_max_price.  Each matcher returns the *)
(* text of group 2 of the match that starts at position i, or None.        *)
(***************************************************************************)
\* (below|under|less than|<=|<): the positions after the trigger, in the
\* order in which the alternatives are tried
TriggerEnds(q, i) ==
    IF q[i] \in WordTriggers THEN <<i + 1>>
    ELSE IF q[i] = "<"
         THEN IF i + 1 <= Len(q) /\ q[i + 1] = "=" THEN <<i + 2, i + 1>> ELSE <<i + 1>>
         ELSE <<>>

\* \s* : the position after the longest run of whitespace from j
RECURSIVE SkipSpace(_, _)
SkipSpace(q, j) ==
    IF j <= Len(q) /\ q[j] \in Whitespace THEN SkipSpace(q, j + 1) ELSE j

\* the position after the longest run of digits from j
RECURSIVE SkipDigits(_, _)
SkipDigits(q, j) ==
    IF j <= Len(q) /\ q[j] \in Digits THEN SkipDigits(q, j + 1) ELSE j

\* \s*(\d+)\s*k from position j.  \d+ gives back no digit usefully: what
\* follows a shorter run is a digit, which neither \s nor k matches
KTailAt(q, j) ==
    LET d == SkipSpace(q, j)
        e == SkipDigits(q, d)
        k == SkipSpace(q, e)
    IN  IF e > d /\ k <= Len(q) /\ q[k] = "k" THEN Some(SubSeq(q, d, e - 1)) ELSE None

PlainMinDigits == 3
PlainMaxDigits == 7

\* \s*(\d{3,7}) from position j: greedy, at most 7 digits
NumTailAt(q, j) ==
    LET d == SkipSpace(q, j)
        e == SkipDigits(q, d)
        n == Min(e - d, PlainMaxDigits)
    IN  IF n >= PlainMinDigits THEN Some(SubSeq(q, d, d + n - 1)) ELSE None

\* the rest of a pattern after its trigger
KPattern == "k_match"
NumPattern == "num_match"
TailAt(pattern, q, j) == IF pattern = KPattern THEN KTailAt(q, j) ELSE NumTailAt(q, j)

\* the first alternative of the trigger whose tail matches
RECURSIVE FirstAlt(_, _, _)
FirstAlt(pattern, q, ends) ==
    IF ends = <<>> THEN None
    ELSE IF TailAt(pattern, q, Head(ends)) # None THEN TailAt(pattern, q, Head(ends))
         ELSE FirstAlt(pattern, q, Tail(ends))

\* re.search: the match at the leftmost position that has one
RECURSIVE ReSearch(_, _, _)
ReSearch(pattern, q, i) ==
    IF i > Len(q) THEN None
    ELSE LET m == FirstAlt(pattern, q, TriggerEnds(q, i))
         IN  IF m # None THEN m ELSE ReSearch(pattern, q, i + 1)

\* the two patterns tried in the other order
extract_plain_first(query) ==
    LET q == Strip(Lower(query))
        k_match == ReSearch(KPattern, q, 1)
        num_match == ReSearch(NumPattern, q, 1)
    IN  IF num_match # None THEN Some(ParseDigits(ValueOf(num_match)))
        ELSE IF k_match # None THEN Some(ParseDigits(ValueOf(k_match)) * 1000)
        ELSE None

extract_max_price(query) ==
    LET q == Strip(Lower(query))
        k_match == ReSearch(KPattern, q, 1)
        num_match == ReSearch(NumPattern, q, 1)
    IN  IF k_match # None THEN Some(ParseDigits(ValueOf(k_match)) * 1000)
        ELSE IF num_match # None THEN Some(ParseDigits(ValueOf(num_match)))
        ELSE None

(***************************************************************************)
(* Product candidates.  A candidate is a dict with an optional "meta" key; *)
(* a metadata bag is None or a dict with optional "name" and "price" keys. *)
(* A price value is an int, a string (a sequence of characters) or None.   *)
(***************************************************************************)
PyNone == [t |-> "none"]
PyInt(n) == [t |-> "int", v |-> n]
PyStr(s) == [t |-> "str", v |-> s]
EmptyDict == [t |-> "dict"]

\* d.get(key, default)
Get(d, key, default) == IF key \in DOMAIN d THEN d[key] ELSE default

\* x or {}
OrEmptyDict(x) == IF x.t = "none" \/ DOMAIN x = {"t"} THEN EmptyDict ELSE x

\* r.get("meta", {}) or {}
MetaOf(r) == OrEmptyDict(Get(r, "meta", EmptyDict))

\* float(p): the number, or None where float raises
FloatOf(p) ==
    CASE p.t = "int" -> Some(p.v)
      [] p.t = "str" ->
            LET s == Strip(p.v)
            IN  IF s # <<>> /\ \A i \in 1..Len(s) : s[i] \in Digits
                THEN Some(ParseDigits(s)) ELSE None
      [] OTHER -> None

\* only a price stored as a number is converted
safe_price_numbers_only(meta) ==
    LET p == Get(meta, "price", PyInt(0))
    IN  IF p.t = "int" THEN p.v ELSE 0

safe_price(meta) ==
    LET p == Get(meta, "price", PyInt(0))
    IN  IF FloatOf(p) # None THEN ValueOf(FloatOf(p)) ELSE 0

PriceOf(r) == safe_price(MetaOf(r))

\* the comparison written < instead of <=
apply_filters_strict(rs, mp) ==
    IF mp = None THEN rs
    ELSE LET Within(r) == safe_price(MetaOf(r)) < ValueOf(mp) IN SelectSeq(rs, Within)

apply_filters(rs, mp) ==
    IF mp = None THEN rs
    ELSE LET Within(r) == safe_price(MetaOf(r)) <= ValueOf(mp) IN SelectSeq(rs, Within)

SemanticRelevance == "Semantic relevance"
LowToHigh == "Price: Low to High"
HighToLow == "Price: High to Low"
SortModes == {SemanticRelevance, LowToHigh, HighToLow}

\* sorted(rs, key): an element is placed after every element whose key is
\* not greater, so equal keys keep their order
RECURSIVE InsertByKey(_, _)
InsertByKey(sorted, r) ==
    IF sorted = <<>> THEN <<r>>
    ELSE IF PriceOf(r) < PriceOf(Head(sorted)) THEN <<r>> \o sorted
         ELSE <<Head(sorted)>> \o InsertByKey(Tail(sorted), r)

RECURSIVE SortedFrom(_, _)
SortedFrom(acc, rest) ==
    IF rest = <<>> THEN acc
    ELSE SortedFrom(InsertByKey(acc, Head(rest)), Tail(rest))

Sorted(rs) == SortedFrom(<<>>, rs)

\* the ascending order reversed, which reverses equal keys too
SortedThenReversed(rs) == Reverse(Sorted(rs))

\* sorted(rs, key, reverse=True): the list is reversed, sorted and reversed
\* again, which keeps equal keys in their order
SortedReverse(rs) == Reverse(Sorted(Reverse(rs)))

apply_sort(rs, mode) ==
    IF mode = LowToHigh THEN Sorted(rs)
    ELSE IF mode = HighToLow THEN SortedReverse(rs)
    ELSE rs

(***************************************************************************)
(* Answers.  An answer is described by what it says: its kind, the query   *)
(* and the budget it names, and the product lines it lists.                *)
(***************************************************************************)
NotApplicable == PyStr(<<"N/A">>)
EmptyStr == PyStr(<<>>)

\* "₹{int(max_price)}", where a budget is given
BudgetText(mp) == IF mp = None THEN None ELSE Some(FormatInt(ValueOf(mp)))

\* the bullet of fallback_answer for one candidate
SummaryLine(r) ==
    [name |-> Get(MetaOf(r), "name", NotApplicable),
     price |-> Get(MetaOf(r), "price", NotApplicable)]

\* the context line of groq_rag_answer for one candidate
ContextLine(r) ==
    [name |-> Get(MetaOf(r), "name", EmptyStr),
     price |-> Get(MetaOf(r), "price", EmptyStr)]

NoReply == [kind |-> "none", query |-> <<>>, budget |-> None, lines |-> <<>>]

SummaryCount == 3
ContextCount == 8
CardCount == 10

fallback_answer(query, rs, mp) ==
    IF rs = <<>>
    THEN IF mp # None
         THEN [kind |-> "no_match_budget", query |-> <<>>, budget |-> BudgetText(mp),
               lines |-> <<>>]
         ELSE [kind |-> "no_match", query |-> <<>>, budget |-> None, lines |-> <<>>]
    ELSE [kind |-> "summary", query |-> query, budget |-> BudgetText(mp),
          lines |-> [i \in 1..Min(SummaryCount, Len(rs)) |-> SummaryLine(rs[i])]]

\* What the generative backend does with a prompt: it raises, or it returns
\* a text, described by the product lines the text asserts.
BackendRaises == [ok |-> FALSE, lines |-> <<>>]
BackendReturns(lines) == [ok |-> TRUE, lines |-> lines]

\* The result of groq_rag_answer: whether llm.invoke was called and with
\* which context and budget line, whether the call raised, and the value
\* returned otherwise.
Returned(value) ==
    [called |-> FALSE, context |-> <<>>, budget_text |-> None, raised |-> FALSE,
     value |-> value]

\* the credential tested without .strip()
groq_rag_answer_unstripped(query, rs, mp, backend) ==
    IF groq_key = <<>> THEN Returned(fallback_answer(query, rs, mp))
    ELSE IF rs = <<>> THEN Returned(fallback_answer(query, rs, mp))
    ELSE [called |-> TRUE,
          context |-> [i \in 1..Min(ContextCount, Len(rs)) |-> ContextLine(rs[i])],
          budget_text |-> BudgetText(mp),
          raised |-> ~backend.ok,
          value |-> IF backend.ok
                    THEN [kind |-> "generated", query |-> query, budget |-> None,
                          lines |-> backend.lines]
                    ELSE NoReply]

groq_rag_answer(query, rs, mp, backend) ==
    IF Strip(groq_key) = <<>> THEN Returned(fallback_answer(query, rs, mp))
    ELSE IF rs = <<>> THEN Returned(fallback_answer(query, rs, mp))
    ELSE [called |-> TRUE,
          context |-> [i \in 1..Min(ContextCount, Len(rs)) |-> ContextLine(rs[i])],
          budget_text |-> BudgetText(mp),
          raised |-> ~backend.ok,
          value |-> IF backend.ok
                    THEN [kind |-> "generated", query |-> query, budget |-> None,
                          lines |-> backend.lines]
                    ELSE NoReply]

\* render_product_cards: one card per candidate of the first ten
render_product_cards(rs) ==
    [i \in 1..Min(CardCount, Len(rs)) |-> rs[i]]

(***************************************************************************)
(* The chat session.                                                       *)
(***************************************************************************)
Meta(name, price) == [t |-> "dict", name |-> PyStr(<<name>>), price |-> price]
Cand(id, meta) == [id |-> id, meta |-> meta]

ProductA == Cand(1, Meta("A", PyInt(12000)))
ProductB == Cand(2, Meta("B", PyStr(<<"2", "0", "0", "0", "0">>)))
ProductC == Cand(3, Meta("C", PyStr(<<"b", "a", "d">>)))
Catalog == {ProductA, ProductB, ProductC}

\* a product that is in no index
Phantom == Cand(0, Meta("Z", PyInt(1)))

Injective(s) == \A i, j \in 1..Len(s) : i # j => s[i] # s[j]
ShortLists ==
    UNION {{s \in [1..n -> Catalog] : Injective(s)} : n \in 0..MaxResults}

\* a result list longer than the context and the card limits
LongLen == 11
LongList == [i \in 1..LongLen |-> Cand(100 + i, Meta("L", PyInt(1000 * i)))]

\* index.query(vector, top_k): at most top_k candidates
Retrievals(k) == {l \in ShortLists \cup {LongList} : Len(l) <= k}

\* the texts the backend may return for a prompt with the given context,
\* each described by the product lines it asserts
BackendTexts(ctx) ==
    {ctx, Prefix(ctx, 2)} \cup {<<ContextLine(c)>> : c \in Catalog \cup {Phantom}}

TurnQueries ==
    {<<"a">>,
     <<"a", " ", "under", " ", "1", "5", "0", "0", "0">>,
     <<"below", " ", "1", "0", "k">>,
     <<"UNDER", " ", "3", "0", "K">>}
BlankQueries == {<<>>, <<" ">>}

KeyValues == {<<>>, <<" ">>, <<"g", "s", "k">>}

TopKMin == 3
TopKDefault == 10
TopKMax == 20
TopKChoices == {TopKMin, TopKDefault, TopKMax}

\* A message of the history: its role, the query turn it belongs to (0: the
\* greeting) and, for a user message, its content.
Greeting == [role |-> "assistant", turn |-> 0, content |-> <<>>]
UserMessage(n, q) == [role |-> "user", turn |-> n, content |-> q]
AssistantMessage(n) == [role |-> "assistant", turn |-> n, content |-> <<>>]

NoCall ==
    /\ fn = <<>>
    /\ arg_query = <<>>
    /\ arg_results = <<>>
    /\ arg_max_price = None
    /\ ret_price = None
    /\ ret_results = <<>>
    /\ ret_again = <<>>

\* the locals of a script run that handles no query
FreshRun ==
    /\ max_price' = None
    /\ retrieved' = <<>>
    /\ results' = <<>>
    /\ context' = <<>>
    /\ budget_text' = None
    /\ invoked' = FALSE
    /\ reply' = NoReply
    /\ cards' = <<>>
    /\ outcome' = "idle"

Init ==
    /\ messages = <<Greeting>>
    /\ sort_mode = SemanticRelevance
    /\ use_ai = TRUE
    /\ top_k = TopKDefault
    /\ groq_key \in KeyValues
    /\ turn = 0
    /\ user_query = <<>>
    /\ max_price = None
    /\ retrieved = <<>>
    /\ results = <<>>
    /\ context = <<>>
    /\ budget_text = None
    /\ invoked = FALSE
    /\ reply = NoReply
    /\ cards = <<>>
    /\ outcome = "idle"
    /\ NoCall

\* the script is inside a blocking call of the query handler
Busy == outcome \in {"retrieving", "generating"}

SetSortMode(m) ==
    /\ ~Busy
    /\ m # sort_mode
    /\ sort_mode' = m
    /\ user_query' = <<>>
    /\ FreshRun
    /\ UNCHANGED <<messages, use_ai, top_k, groq_key, turn, call_vars>>

SetUseAi(b) ==
    /\ ~Busy
    /\ b # use_ai
    /\ use_ai' = b
    /\ user_query' = <<>>
    /\ FreshRun
    /\ UNCHANGED <<messages, sort_mode, top_k, groq_key, turn, call_vars>>

SetTopK(k) ==
    /\ ~Busy
    /\ k # top_k
    /\ top_k' = k
    /\ user_query' = <<>>
    /\ FreshRun
    /\ UNCHANGED <<messages, sort_mode, use_ai, groq_key, turn, call_vars>>

\* the input is empty or whitespace: the handler is skipped
BlankInput(q) ==
    /\ ~Busy
    /\ Strip(q) = <<>>
    /\ user_query' = q
    /\ FreshRun
    /\ UNCHANGED <<messages, sort_mode, use_ai, top_k, groq_key, turn, call_vars>>

\* the locals of the handler
\* a budget that outlives its query: kept when the next query names none
TurnBudget_kept(q) ==
    IF extract_max_price(q) = None THEN max_price ELSE extract_max_price(q)

TurnBudget(q) == extract_max_price(q)
TurnResults(items, mp) == apply_sort(apply_filters(items, mp), sort_mode)
TurnAnswer(q, rs, mp, backend) ==
    IF use_ai THEN groq_rag_answer(q, rs, mp, backend)
    ELSE Returned(fallback_answer(q, rs, mp))

\* lines 215-223: the answer and the cards are shown, the answer is appended
Finish(answer, rs) ==
    /\ reply' = answer
    /\ cards' = render_product_cards(rs)
    /\ messages' = Append(messages, AssistantMessage(turn))
    /\ outcome' = "answered"

\* lines 195-204: a query is typed; the run blocks in index.query
Submit(q) ==
    /\ ~Busy
    /\ turn < MaxTurns
    /\ Strip(q) # <<>>
    /\ turn' = turn + 1
    /\ messages' = Append(messages, UserMessage(turn + 1, q))
    /\ user_query' = q
    /\ max_price' = TurnBudget(q)
    /\ retrieved' = <<>>
    /\ results' = <<>>
    /\ context' = <<>>
    /\ budget_text' = None
    /\ invoked' = FALSE
    /\ reply' = NoReply
    /\ cards' = <<>>
    /\ outcome' = "retrieving"
    /\ UNCHANGED <<sort_mode, use_ai, top_k, groq_key, call_vars>>

\* embed_query or index.query raises: the run ends there
QueryRaises ==
    /\ outcome = "retrieving"
    /\ outcome' = "retrieval_error"
    /\ UNCHANGED <<messages, sort_mode, use_ai, top_k, groq_key, turn, user_query,
                   max_price, retrieved, results, context, budget_text, invoked, reply,
                   cards, call_vars>>

\* lines 204-213 up to llm.invoke, and lines 215-223 when it is not called
QueryReturns(items) ==
    /\ outcome = "retrieving"
    /\ retrieved' = items
    /\ results' = TurnResults(items, max_price)
    /\ LET ans == TurnAnswer(user_query, results', max_price, BackendRaises)
       IN  /\ invoked' = ans.called
           /\ context' = ans.context
           /\ budget_text' = ans.budget_text
           /\ IF ans.called
              THEN /\ outcome' = "generating"
                   /\ UNCHANGED <<messages, reply, cards>>
              ELSE Finish(ans.value, results')
    /\ UNCHANGED <<sort_mode, use_ai, top_k, groq_key, turn, user_query, max_price,
                   call_vars>>

\* llm.invoke raises: nothing catches it, the run ends there
InvokeRaises ==
    /\ outcome = "generating"
    /\ LET ans == TurnAnswer(user_query, results, max_price, BackendRaises)
       IN  /\ ans.raised
           /\ outcome' = "generation_error"
    /\ UNCHANGED <<messages, sort_mode, use_ai, top_k, groq_key, turn, user_query,
                   max_price, retrieved, results, context, budget_text, invoked, reply,
                   cards, call_vars>>

\* llm.invoke returns a text: lines 149 and 215-223
InvokeReturns(lines) ==
    /\ outcome = "generating"
    /\ LET ans == TurnAnswer(user_query, results, max_price, BackendReturns(lines))
       IN  /\ ~ans.raised
           /\ Finish(ans.value, results)
    /\ UNCHANGED <<sort_mode, use_ai, top_k, groq_key, turn, user_query, max_price,
                   retrieved, results, context, budget_text, invoked, call_vars>>

Next ==
    \/ \E m \in SortModes : SetSortMode(m)
    \/ \E b \in BOOLEAN : SetUseAi(b)
    \/ \E k \in TopKChoices : SetTopK(k)
    \/ \E q \in BlankQueries : BlankInput(q)
    \/ \E q \in TurnQueries : Submit(q)
    \/ QueryRaises
    \/ \E items \in Retrievals(top_k) : QueryReturns(items)
    \/ InvokeRaises
    \/ \E lines \in BackendTexts(context) : InvokeReturns(lines)

Spec == Init /\ [][Next]_vars

(***************************************************************************)
(* Direct calls of the pure functions, on inputs drawn from bounded sets.  *)
(***************************************************************************)
QueryAlphabet == {"under", "<", "=", "0", "1", " ", "k", "a"}

ProductD == Cand(4, PyNone)
ProductE == [id |-> 5]
ProductF == Cand(6, [t |-> "dict", name |-> PyStr(<<"F">>)])
ProductG == Cand(7, Meta("G", PyNone))
ProductH == Cand(8, Meta("H", PyInt(20000)))
ProductI == Cand(9, EmptyDict)
ProductJ == Cand(10, Meta("J", PyStr(<<" ", "1", "2", "0", "0", "0">>)))
RankCatalog ==
    Catalog \cup {ProductD, ProductE, ProductF, ProductG, ProductH, ProductI, ProductJ}
Budgets == {None, Some(0), Some(12000), Some(15000), Some(20000)}

\* the session is not running
NoSession ==
    /\ messages = <<Greeting>>
    /\ sort_mode = SemanticRelevance
    /\ use_ai = TRUE
    /\ top_k = TopKDefault
    /\ groq_key = <<>>
    /\ turn = 0
    /\ user_query = <<>>
    /\ max_price = None
    /\ retrieved = <<>>
    /\ results = <<>>
    /\ context = <<>>
    /\ budget_text = None
    /\ invoked = FALSE
    /\ reply = NoReply
    /\ cards = <<>>
    /\ outcome = "idle"

InitExtract ==
    /\ NoSession
    /\ fn = <<>>
    /\ \E n \in 0..MaxQueryLen : arg_query \in [1..n -> QueryAlphabet]
    /\ arg_results = <<>>
    /\ arg_max_price = None
    /\ ret_price = None
    /\ ret_results = <<>>
    /\ ret_again = <<>>

CallExtract ==
    /\ fn = <<>>
    /\ fn' = <<"extract_max_price">>
    /\ ret_price' = extract_max_price(arg_query)
    /\ UNCHANGED <<session_vars, arg_query, arg_results, arg_max_price, ret_results,
                   ret_again>>

NextExtract == CallExtract

SpecExtract == InitExtract /\ [][NextExtract]_vars

InitRank ==
    /\ NoSession
    /\ fn = <<>>
    /\ arg_query = <<>>
    /\ \E n \in 0..MaxResults : arg_results \in [1..n -> RankCatalog]
    /\ arg_max_price \in Budgets
    /\ ret_price = None
    /\ ret_results = <<>>
    /\ ret_again = <<>>

CallFilter ==
    /\ fn = <<>>
    /\ fn' = <<"apply_filters">>
    /\ ret_results' = apply_filters(arg_results, arg_max_price)
    /\ UNCHANGED <<session_vars, arg_query, arg_results, arg_max_price, ret_price,
                   ret_again>>

\* apply_sort takes no budget
CallSort(mode) ==
    /\ fn = <<>>
    /\ arg_max_price = None
    /\ fn' = <<"apply_sort", mode>>
    /\ ret_results' = apply_sort(arg_results, mode)
    /\ UNCHANGED <<session_vars, arg_query, arg_results, arg_max_price, ret_price,
                   ret_again>>

\* apply_sort applied to a list that apply_sort returned
CallSortAgain(mode) ==
    /\ Len(fn) = 2
    /\ fn[1] = "apply_sort"
    /\ fn' = Append(fn, mode)
    /\ ret_again' = apply_sort(ret_results, mode)
    /\ UNCHANGED <<session_vars, arg_query, arg_results, arg_max_price, ret_price,
                   ret_results>>

NextRank ==
    \/ CallFilter
    \/ \E mode \in SortModes : CallSort(mode)
    \/ \E mode \in SortModes : CallSortAgain(mode)

SpecRank == InitRank /\ [][NextRank]_vars

(***************************************************************************)
(* Properties.  The notions of the claims are defined here on their own,   *)
(* not through the definitions of the model.                               *)
(***************************************************************************)
\* the value of a decimal numeral
RECURSIVE Decimal(_)
Decimal(ds) ==
    IF ds = <<>> THEN 0
    ELSE DigitVal(Head(ds)) * 10 ^ (Len(ds) - 1) + Decimal(Tail(ds))

AllIn(q, a, b, S) == \A x \in a..b : q[x] \in S

\* a trigger phrase is q[i..j-1]
IsTrigger(q, i, j) ==
    \/ j = i + 1 /\ q[i] \in {"below", "under", "less than", "<"}
    \/ j = i + 2 /\ i + 1 <= Len(q) /\ q[i] = "<" /\ q[i + 1] = "="

\* a trigger phrase starts at i and, after optional blanks, an integer at d
TriggerThenNumber(q, i, d) ==
    /\ d <= Len(q)
    /\ q[d] \in Digits
    /\ \E j \in {i + 1, i + 2} : j <= d /\ IsTrigger(q, i, j) /\ AllIn(q, j, d - 1, {" "})

\* that integer is q[d..e-1]
IntegerEnds(q, d, e) ==
    /\ AllIn(q, d, e - 1, Digits)
    /\ (e <= Len(q) => q[e] \notin Digits)

\* the integer q[d..e-1] is followed, after optional blanks, by the letter k
ThenK(q, e) == \E k \in e..Len(q) : AllIn(q, e, k - 1, {" "}) /\ q[k] = "k"

Shorthand(q, i, d, e) ==
    TriggerThenNumber(q, i, d) /\ IntegerEnds(q, d, e) /\ ThenK(q, e)

ShorthandAt(q, i) ==
    \E d \in (i + 1)..Len(q) : \E e \in (d + 1)..(Len(q) + 1) : Shorthand(q, i, d, e)

TriggerCount(q) ==
    Cardinality({i \in 1..Len(q) : q[i] \in {"below", "under", "less than", "<"}})

Extracted == fn = <<"extract_max_price">>

\* C4: in a query with one trigger phrase, followed by an integer N that is
\* not directly followed by the letter k, extract_max_price returns N when N
\* has 3 to 7 digits, whatever else the query holds, and nothing when N has
\* fewer than 3 digits and no k comes after it.
C4_PlainNumber ==
    (Extracted /\ TriggerCount(arg_query) = 1) =>
        \A i \in 1..Len(arg_query) : \A d \in (i + 1)..Len(arg_query) :
            TriggerThenNumber(arg_query, i, d) =>
                \A e \in (d + 1)..(Len(arg_query) + 1) :
                    (/\ IntegerEnds(arg_query, d, e)
                     /\ (e <= Len(arg_query) => arg_query[e] # "k")) =>
                        /\ (e - d \in 3..7 =>
                                ret_price = {Decimal(SubSeq(arg_query, d, e - 1))})
                        /\ (/\ e - d < 3
                            /\ \A x \in e..Len(arg_query) : arg_query[x] # "k") =>
                                ret_price = {}

\* C5: where a trigger phrase is followed by an integer N and directly by the
\* letter k, and no shorthand match starts further left in the query,
\* extract_max_price returns N x 1000, whatever the number of digits of N,
\* also where N alone would match as a plain number.
C5_ShorthandTimesThousand ==
    Extracted =>
        \A i \in 1..Len(arg_query) : \A d \in (i + 1)..Len(arg_query) :
            (/\ TriggerThenNumber(arg_query, i, d)
             /\ \A h \in 1..(i - 1) : ~ShorthandAt(arg_query, h)) =>
                \A e \in (d + 1)..Len(arg_query) :
                    (IntegerEnds(arg_query, d, e) /\ arg_query[e] = "k") =>
                        ret_price = {1000 * Decimal(SubSeq(arg_query, d, e - 1))}

\* a three-digit shorthand: "under100k" gives 100000, not 100
C5_Witness ==
    /\ Extracted
    /\ Len(arg_query) = 5
    /\ TriggerThenNumber(arg_query, 1, 2)
    /\ IntegerEnds(arg_query, 2, 5)
    /\ arg_query[5] = "k"
    /\ ret_price = {1000 * Decimal(SubSeq(arg_query, 2, 4))}

\* the coerced price of a candidate, as the specification defines it
IsNumeral(s) == s # <<>> /\ \A i \in 1..Len(s) : s[i] \in Digits
Trimmed(s) ==
    LET inner == {i \in 1..Len(s) : s[i] # " "}
    IN  IF inner = {} THEN <<>>
        ELSE SubSeq(s, CHOOSE i \in inner : \A j \in inner : i <= j,
                       CHOOSE i \in inner : \A j \in inner : i >= j)
CoercedPrice(r) ==
    IF "meta" \notin DOMAIN r THEN 0
    ELSE IF "price" \notin DOMAIN r.meta THEN 0
    ELSE IF r.meta.price.t = "int" THEN r.meta.price.v
    ELSE IF r.meta.price.t = "str" /\ IsNumeral(Trimmed(r.meta.price.v))
         THEN Decimal(Trimmed(r.meta.price.v))
    ELSE 0

\* out is the subsequence of inp at the indices of keep, in order
IsSubsequenceAt(out, inp, keep) ==
    /\ Len(out) = Cardinality(keep)
    /\ \A i \in keep : out[Cardinality({j \in keep : j <= i})] = inp[i]

\* C6: apply_filters returns exactly the candidates whose coerced price is
\* at most the budget, in their order and multiplicity; without a budget it
\* returns its input.
C6_StableFilter ==
    fn = <<"apply_filters">> =>
        IF arg_max_price = {} THEN ret_results = arg_results
        ELSE \E M \in arg_max_price :
                IsSubsequenceAt(ret_results, arg_results,
                    {i \in 1..Len(arg_results) : CoercedPrice(arg_results[i]) <= M})

\* a candidate at the budget and one with a malformed price are kept, a
\* dearer one is dropped
C6_Witness ==
    /\ fn = <<"apply_filters">>
    /\ arg_max_price = {12000}
    /\ arg_results = <<ProductB, ProductA, ProductC>>
    /\ ret_results = <<ProductA, ProductC>>

\* the place of inp[i] in a stable sort of inp by coerced price
AscendingPlace(inp, i) ==
    Cardinality({j \in 1..Len(inp) :
        \/ CoercedPrice(inp[j]) < CoercedPrice(inp[i])
        \/ CoercedPrice(inp[j]) = CoercedPrice(inp[i]) /\ j <= i})
DescendingPlace(inp, i) ==
    Cardinality({j \in 1..Len(inp) :
        \/ CoercedPrice(inp[j]) > CoercedPrice(inp[i])
        \/ CoercedPrice(inp[j]) = CoercedPrice(inp[i]) /\ j <= i})

SortedAs(out, inp, mode) ==
    /\ Len(out) = Len(inp)
    /\ mode = "Price: Low to High" =>
        /\ \A i \in 1..Len(inp) : out[AscendingPlace(inp, i)] = inp[i]
        /\ \A a, b \in 1..Len(out) :
                a < b => CoercedPrice(out[a]) <= CoercedPrice(out[b])
    /\ mode = "Price: High to Low" =>
        /\ \A i \in 1..Len(inp) : out[DescendingPlace(inp, i)] = inp[i]
        /\ \A a, b \in 1..Len(out) :
                a < b => CoercedPrice(out[a]) >= CoercedPrice(out[b])
    /\ mode = "Semantic relevance" => out = inp

DistinctPrices(inp) ==
    \A a, b \in 1..Len(inp) : a # b => CoercedPrice(inp[a]) # CoercedPrice(inp[b])

\* C7: apply_sort returns a permutation of its input, in non-decreasing
\* (ascending mode) or non-increasing (descending mode) coerced price, with
\* equal prices in their input order; in relevance mode it returns its input;
\* with distinct prices, descending after ascending is the ascending order
\* reversed.
C7_StableSort ==
    (Len(fn) >= 2 /\ fn[1] = "apply_sort") =>
        /\ SortedAs(ret_results, arg_results, fn[2])
        /\ Len(fn) = 3 => SortedAs(ret_again, ret_results, fn[3])
        /\ (/\ fn = <<"apply_sort", "Price: Low to High", "Price: High to Low">>
            /\ DistinctPrices(arg_results)) =>
                /\ Len(ret_again) = Len(ret_results)
                /\ \A i \in 1..Len(ret_again) :
                        ret_again[i] = ret_results[Len(ret_results) + 1 - i]

\* descending order with two equal prices: B stays before H
C7_Witness ==
    /\ fn = <<"apply_sort", "Price: High to Low">>
    /\ arg_results = <<ProductA, ProductB, ProductH>>
    /\ ret_results = <<ProductB, ProductH, ProductA>>

\* the coerced price of every candidate of a list is at most M
AllWithin(lines, Line(_), M) ==
    \A k \in 1..Len(lines) :
        \A i \in 1..Len(retrieved) :
            lines[k] = Line(retrieved[i]) => CoercedPrice(retrieved[i]) <= M

PhonesUnder15000 == <<"a", " ", "under", " ", "1", "5", "0", "0", "0">>

\* C2: when the query yields a budget M, no retrieved candidate whose coerced
\* price exceeds M is listed in the deterministic answer, in the context sent
\* to the backend or among the cards; for "phones under 15000" with
\* candidates A=12000, B=20000, C="bad" the deterministic answer lists A and
\* C.
C2_BudgetEndToEnd ==
    /\ \A M \in max_price :
        /\ reply.kind = "summary" => AllWithin(reply.lines, SummaryLine, M)
        /\ AllWithin(context, ContextLine, M)
        /\ \A k \in 1..Len(cards) : CoercedPrice(cards[k]) <= M
        /\ \A k \in 1..Len(results) : CoercedPrice(results[k]) <= M
    /\ (/\ user_query = PhonesUnder15000
        /\ retrieved = <<ProductA, ProductB, ProductC>>
        /\ sort_mode = "Semantic relevance"
        /\ outcome = "answered"
        /\ ~invoked) =>
            /\ max_price = {15000}
            /\ reply.kind = "summary"
            /\ reply.lines = <<SummaryLine(ProductA), SummaryLine(ProductC)>>
            /\ cards = <<ProductA, ProductC>>

\* the scenario of the specification, with no credential
C2_Witness ==
    /\ user_query = PhonesUnder15000
    /\ retrieved = <<ProductA, ProductB, ProductC>>
    /\ sort_mode = "Semantic relevance"
    /\ Strip(groq_key) = <<>>
    /\ outcome = "answered"
    /\ reply.lines = <<SummaryLine(ProductA), SummaryLine(ProductC)>>

\* a query turn has run to its end
TurnEnded == outcome \in {"answered", "retrieval_error", "generation_error"}

FirstLines(rs, n) ==
    [i \in 1..(IF Len(rs) < n THEN Len(rs) ELSE n) |-> SummaryLine(rs[i])]

\* the deterministic answer for the results of the turn
IsDeterministic(answer) ==
    IF results = <<>>
    THEN IF max_price = {}
         THEN answer.kind = "no_match"
         ELSE /\ answer.kind = "no_match_budget"
              /\ \E text \in answer.budget : max_price = {Decimal(text)}
    ELSE /\ answer.kind = "summary"
         /\ answer.query = user_query
         /\ answer.lines = FirstLines(results, 3)
         /\ IF max_price = {} THEN answer.budget = {}
            ELSE \E text \in answer.budget : max_price = {Decimal(text)}

\* C1: a turn in which the backend was called and gave no text still ends
\* with the deterministic answer for that query.
C1_FallbackOnBackendFailure ==
    (TurnEnded /\ invoked /\ reply.kind # "generated") =>
        outcome = "answered" /\ IsDeterministic(reply)

\* C3: every product line of the answer is a line of the filtered candidate
\* list: a bullet of one of its candidates in the deterministic answer, an
\* entry of the context built from its first 8 candidates in the generated
\* answer.
C3_Grounding ==
    /\ reply.kind = "summary" =>
        \A k \in 1..Len(reply.lines) :
            \E i \in 1..Len(results) : reply.lines[k] = SummaryLine(results[i])
    /\ reply.kind = "generated" =>
        \A k \in 1..Len(reply.lines) :
            \E i \in 1..Len(results) :
                i <= 8 /\ reply.lines[k] = ContextLine(results[i])

CredentialPresent == \E i \in 1..Len(groq_key) : groq_key[i] # " "

\* C8: once the candidates of a turn are known, the backend is called if and
\* only if AI answers are on, the credential is not blank and the filtered
\* list is not empty; otherwise the turn ends with the deterministic answer:
\* the no-match message, naming the budget if there is one, for an empty
\* list, the summary of the first min(3, n) candidates otherwise.
C8_AnswerRouting ==
    outcome \in {"generating", "answered", "generation_error"} =>
        /\ invoked <=> (use_ai /\ CredentialPresent /\ results # <<>>)
        /\ ~invoked => (outcome = "answered" /\ IsDeterministic(reply))

\* AI answers on, a blank credential, every candidate over the budget: the
\* no-match message names 15000 and the backend is not called
C8_Witness ==
    /\ outcome = "answered"
    /\ use_ai
    /\ groq_key = <<" ">>
    /\ retrieved = <<ProductB>>
    /\ results = <<>>
    /\ reply.kind = "no_match_budget"
    /\ reply.budget = {<<"1", "5", "0", "0", "0">>}

\* C9: in every query turn the budget that filters the candidates and that
\* the answer and the prompt disclose is extract_max_price of the query of
\* that turn; the budget of an earlier query plays no part.
C9_BudgetPerQuery ==
    outcome # "idle" =>
        /\ max_price = extract_max_price(user_query)
        /\ outcome \in {"generating", "answered", "generation_error"} =>
            /\ Len(results) = Cardinality({i \in 1..Len(retrieved) :
                    \A M \in extract_max_price(user_query) :
                        CoercedPrice(retrieved[i]) <= M})
            /\ invoked => budget_text = BudgetText(extract_max_price(user_query))
            /\ reply.kind \in {"summary", "no_match", "no_match_budget"} =>
                    reply.budget = BudgetText(extract_max_price(user_query))

\* the first query named a budget of 15000, the second names none: B, which
\* costs 20000, is recommended in the second turn
C9_Witness ==
    /\ turn = 2
    /\ outcome = "answered"
    /\ messages[2].content = PhonesUnder15000
    /\ user_query = <<"a">>
    /\ max_price = {}
    /\ results = <<ProductB>>
    /\ reply.kind = "summary"
    /\ reply.budget = {}

\* C10: the history is the greeting followed by alternating user and
\* assistant messages, each user message followed by the answer of its turn
\* before the next user message.
C10_HistoryPairing ==
    /\ messages[1] = Greeting
    /\ \A i \in 2..Len(messages) :
        /\ messages[i].role = "user" <=> i % 2 = 0
        /\ messages[i].role = "assistant" => messages[i].turn = messages[i - 1].turn

====
